---- MODULE Spec2Model ----
(***************************************************************************)
(* Model of package log (logger.go): a context-aware facade over logrus.   *)
(*                                                                         *)
(* Go values are records [t |-> dynamic type, v |-> payload].  The         *)
(* process-wide state is the logrus logger (formatter, level) and the      *)
(* registered context keys ctxFields.  Every exported function is one      *)
(* action; `call` holds the call in progress and `ret` what it produced.   *)
(***************************************************************************)
EXTENDS Integers, Sequences, FiniteSets, TLC

VARIABLES
    logger,     \* var logger = logrus.New(): [Formatter, Level]
    ctxFields,  \* var ctxFields []interface{}
    status,     \* "running", "panicked" (unrecovered panic) or "exited" (os.Exit)
    call,       \* the call in progress: [op |-> ..., arguments]
    ret         \* what the call in progress has produced

vars == <<logger, ctxFields, status, call, ret>>

----------------------------------------------------------------------------
(* Bounds of the model *)

MaxArgs == 2      \* longest argument list handed to normalizeArgs
MaxKeys == 2      \* longest list of registered context keys
MaxFlds == 2      \* most explicit fields in one log call
MaxFmtArgs == 1   \* most variadic arguments in one formatted log call

----------------------------------------------------------------------------
(* Program constants *)

SimpleFormatter == 0
TextFormatter == 1
JSONFormatter == 2

PanicLevel == 0
FatalLevel == 1
ErrorLevel == 2
WarnLevel == 3
InfoLevel == 4
DebugLevel == 5
TraceLevel == 6

----------------------------------------------------------------------------
(* Go values *)

V(t, v) == [t |-> t, v |-> v]

Str(s) == V("string", s)

Nil == V("nil", "nil")

\* the sequences over S of length at most n
SeqsUpTo(S, n) == UNION {[1..k -> S] : k \in 0..n}

\* strconv-style decimal text of an integer
DigitText == <<"0", "1", "2", "3", "4", "5", "6", "7", "8", "9">>

RECURSIVE Itoa(_)
Itoa(n) ==
    IF n < 0 THEN "-" \o Itoa(0 - n)
    ELSE IF n < 10 THEN DigitText[n + 1]
    ELSE Itoa(n \div 10) \o DigitText[(n % 10) + 1]

----------------------------------------------------------------------------
(* Values of the test file and further argument values *)

testJSON == "{\"a\":\"apple\",\"b\":\"banana\",\"c\":{\"d\":\"e\"},1:3}"
testStr == "1"
testInt == V("int", 1)
testFloat == V("float64", "1.1")
testBool == V("bool", TRUE)
testStruct0 == V("testStruct", [F1 |-> "hello", F2 |-> 2])
testMap == V("map[string]interface {}", ("a" :> Str("apple")) @@ ("b" :> Str("banana")))

IntegerTypes ==
    {"int", "int64", "int32", "int16", "int8",
     "uint", "uint64", "uint32", "uint16", "uint8"}

FloatTypes == {"float32", "float64"}

\* types of the model that have a String() string method
StringerTypes == {"time.Duration", "*stringerError"}

\* types of the model that have an Error() string method
ErrorTypes == {"*errors.errorString", "*stringerError"}

errBoom == V("*errors.errorString", "boom")

chanVal == V("chan int", "ch")

PrimitiveVals ==
    {Str(testJSON), Str(testStr), Str(""), testBool, testFloat, V("float32", "1.1")}
    \cup {V(t, 1) : t \in IntegerTypes}

CapabilityVals ==
    {errBoom, V("time.Duration", 5), V("*stringerError", "both")}

unsortedMap ==
    V("map[string]interface {}",
      ("b" :> V("int", 3)) @@ ("ab" :> V("int", 2)) @@ ("a" :> V("int", 1)))

EncodableVals ==
    {testMap, testStruct0, unsortedMap,
     V("map[string]interface {}", <<>>),
     V("*testStruct", [F1 |-> "hello", F2 |-> 2]),
     V("[]int", <<1, 2>>),
     V("myInt", 5),
     Nil}

UnencodableVals ==
    {chanVal,
     V("func()", "fn"),
     V("*node", "cycle"),
     V("map[string]interface {}", ("a" :> chanVal))}

ArgVals == PrimitiveVals \cup CapabilityVals \cup EncodableVals \cup UnencodableVals

----------------------------------------------------------------------------
(* encoding/json as jsonString uses it *)

\* the bytes of the map keys of the model, for Go's byte-wise string order
KeyBytes == ("a" :> <<97>>) @@ ("ab" :> <<97, 98>>) @@ ("b" :> <<98>>)

RECURSIVE BytesLess(_, _)
BytesLess(x, y) ==
    IF y = <<>> THEN FALSE
    ELSE IF x = <<>> THEN TRUE
    ELSE IF x[1] # y[1] THEN x[1] < y[1]
    ELSE BytesLess(Tail(x), Tail(y))

KeyLess(j, k) == BytesLess(KeyBytes[j], KeyBytes[k])

\* json.Marshal sorts the keys of a string-keyed map
RECURSIVE SortedKeys(_)
SortedKeys(S) ==
    IF S = {} THEN <<>>
    ELSE LET k == CHOOSE x \in S : \A y \in S \ {x} : KeyLess(x, y)
         IN  <<k>> \o SortedKeys(S \ {k})

Quote(s) == "\"" \o s \o "\""

\* the elements of a sequence of texts, separated by commas
RECURSIVE JoinComma(_)
JoinComma(ts) ==
    IF ts = <<>> THEN ""
    ELSE IF Len(ts) = 1 THEN ts[1]
    ELSE ts[1] \o "," \o JoinComma(Tail(ts))

\* json.Marshal(v): [err |-> TRUE] or [err |-> FALSE, b |-> the JSON text]
RECURSIVE jsonMarshal(_)
jsonMarshal(v) ==
    CASE v.t = "string" -> [err |-> FALSE, b |-> Quote(v.v)]
      [] v.t \in IntegerTypes \cup {"myInt", "time.Duration"} ->
            [err |-> FALSE, b |-> Itoa(v.v)]
      [] v.t \in FloatTypes -> [err |-> FALSE, b |-> v.v]
      [] v.t = "bool" -> [err |-> FALSE, b |-> IF v.v THEN "true" ELSE "false"]
      [] v.t = "nil" -> [err |-> FALSE, b |-> "null"]
      [] v.t \in {"testStruct", "*testStruct"} ->
            [err |-> FALSE,
             b |-> "{" \o Quote("F1") \o ":" \o Quote(v.v.F1) \o ","
                       \o Quote("F2") \o ":" \o Itoa(v.v.F2) \o "}"]
      [] v.t = "[]int" ->
            [err |-> FALSE,
             b |-> "[" \o JoinComma([i \in DOMAIN v.v |-> Itoa(v.v[i])]) \o "]"]
      [] v.t = "map[string]interface {}" ->
            LET ks == SortedKeys(DOMAIN v.v)
                es == [i \in DOMAIN ks |-> jsonMarshal(v.v[ks[i]])]
            IN  IF \E i \in DOMAIN es : es[i].err
                THEN [err |-> TRUE, b |-> ""]
                ELSE [err |-> FALSE,
                      b |-> "{" \o JoinComma([i \in DOMAIN ks |->
                                      Quote(ks[i]) \o ":" \o es[i].b]) \o "}"]
      [] v.t \in ErrorTypes -> [err |-> FALSE, b |-> "{}"]
      [] OTHER -> [err |-> TRUE, b |-> ""]   \* chan, func, cyclic pointer

\* a jsonString that reports the failure in the returned text
jsonString_errText(v) ==
    LET m == jsonMarshal(v)
    IN  IF m.err THEN "json: unsupported value" ELSE m.b

jsonString(v) ==
    LET m == jsonMarshal(v)
    IN  IF m.err THEN "" ELSE m.b

----------------------------------------------------------------------------
(* normalizeArgs *)

\* the case list of the type switch in normalizeArgs
PassThrough(v) ==
    \/ v.t = "string"
    \/ v.t \in IntegerTypes
    \/ v.t \in FloatTypes
    \/ v.t = "bool"
    \/ v.t \in StringerTypes
    \/ v.t \in ErrorTypes

RECURSIVE normalizeLoop(_, _)
normalizeLoop(a, n) ==
    IF a = <<>> THEN n
    ELSE LET i == Head(a)
         IN  IF PassThrough(i)
             THEN normalizeLoop(Tail(a), Append(n, i))
             ELSE normalizeLoop(Tail(a), Append(n, Str(jsonString(i))))

\* a normalizeArgs whose type switch lacks the error case
RECURSIVE normalizeLoop_noError(_, _)
normalizeLoop_noError(a, n) ==
    IF a = <<>> THEN n
    ELSE LET i == Head(a)
         IN  IF PassThrough(i) /\ i.t \notin ErrorTypes \ StringerTypes
             THEN normalizeLoop_noError(Tail(a), Append(n, i))
             ELSE normalizeLoop_noError(Tail(a), Append(n, Str(jsonString(i))))

normalizeArgs_noError(a) == normalizeLoop_noError(a, <<>>)

normalizeArgs(a) == normalizeLoop(a, <<>>)

----------------------------------------------------------------------------
(* Specification of normalizeArgs as a pure function *)

NoCall == [op |-> "idle"]
NoRet == [op |-> "none"]

\* logrus.New(): text formatter, InfoLevel
NewLogger == [Formatter |-> "logrus.TextFormatter", Level |-> InfoLevel]

ArgSeqs == SeqsUpTo(ArgVals, MaxArgs)

InitNormalize ==
    /\ logger = NewLogger
    /\ ctxFields = <<>>
    /\ status = "running"
    /\ call \in {[op |-> "normalizeArgs", a |-> a] : a \in ArgSeqs}
    /\ ret = NoRet

NormalizeArgs ==
    /\ call.op = "normalizeArgs"
    /\ ret = NoRet
    /\ ret' = [op |-> "normalizeArgs", n |-> normalizeArgs(call.a)]
    /\ UNCHANGED <<logger, ctxFields, status, call>>

SpecNormalize == InitNormalize /\ [][NormalizeArgs]_vars

----------------------------------------------------------------------------
(* Claims about normalizeArgs *)

testJSONResult == "{\"a\":\"apple\",\"b\":\"banana\"}"
testStruct0Result == "{\"F1\":\"hello\",\"F2\":2}"

\* the JSON text Go prints for each encodable value of the model
ExpectedJSON ==
    (testMap :> testJSONResult)
    @@ (testStruct0 :> testStruct0Result)
    @@ (unsortedMap :> "{\"a\":1,\"ab\":2,\"b\":3}")
    @@ (V("map[string]interface {}", <<>>) :> "{}")
    @@ (V("*testStruct", [F1 |-> "hello", F2 |-> 2]) :> testStruct0Result)
    @@ (V("[]int", <<1, 2>>) :> "[1,2]")
    @@ (V("myInt", 5) :> "5")
    @@ (Nil :> "null")

\* the values the claim names as passed through: string, integer and float
\* of any width, bool, fmt.Stringer, error
NamedPassThrough(x) ==
    \/ x \in PrimitiveVals
    \/ x \in CapabilityVals

\* C1: normalizeArgs(a) has the length of a; out[i] is a[i] itself when a[i]
\* is a string, an integer or float of any width, a bool, a fmt.Stringer or
\* an error (the error value, not its message), and is the JSON text of a[i]
\* as a string otherwise (map keys in lexicographic order); a is not modified.
C1_NormalizeContract ==
    /\ [](ret.op = "normalizeArgs" =>
            /\ Len(ret.n) = Len(call.a)
            /\ \A i \in 1..Len(call.a) :
                  /\ NamedPassThrough(call.a[i]) => ret.n[i] = call.a[i]
                  /\ call.a[i] \in EncodableVals =>
                        ret.n[i] = Str(ExpectedJSON[call.a[i]]))
    /\ [][call.op = "normalizeArgs" => call'.a = call.a]_vars

C1_Witness ==
    /\ ret.op = "normalizeArgs"
    /\ call.a = <<errBoom, unsortedMap>>
    /\ ret.n = <<errBoom, Str("{\"a\":1,\"ab\":2,\"b\":3}")>>

\* C10: normalization never aborts: an element whose JSON encoding fails
\* becomes the empty string at its position, and every element, before and
\* after it, is normalized exactly as it would be on its own.
C10_EncodingFailureIsLocal ==
    ret.op = "normalizeArgs" =>
        /\ Len(ret.n) = Len(call.a)
        /\ \A i \in 1..Len(call.a) :
              /\ call.a[i] \in UnencodableVals => ret.n[i] = Str("")
              /\ ret.n[i] = normalizeArgs(<<call.a[i]>>)[1]

C10_Witness ==
    /\ ret.op = "normalizeArgs"
    /\ call.a = <<chanVal, testMap>>
    /\ ret.n = <<Str(""), Str(testJSONResult)>>

----------------------------------------------------------------------------
(* FormatterFromName *)

\* a name is the sequence of its characters
simpleName == <<"s", "i", "m", "p", "l", "e">>
textName == <<"t", "e", "x", "t">>
jsonName == <<"j", "s", "o", "n">>

\* var formatMap
formatMap ==
    (simpleName :> SimpleFormatter)
    @@ (textName :> TextFormatter)
    @@ (jsonName :> JSONFormatter)

\* unicode.ToLower on the letters A..Z; every other character of the model
\* is its own lower case
UpperToLower ==
    [A |-> "a", B |-> "b", C |-> "c", D |-> "d", E |-> "e", F |-> "f",
     G |-> "g", H |-> "h", I |-> "i", J |-> "j", K |-> "k", L |-> "l",
     M |-> "m", N |-> "n", O |-> "o", P |-> "p", Q |-> "q", R |-> "r",
     S |-> "s", T |-> "t", U |-> "u", V |-> "v", W |-> "w", X |-> "x",
     Y |-> "y", Z |-> "z"]

\* strings.ToLower
ToLower(name) ==
    [i \in DOMAIN name |->
        IF name[i] \in DOMAIN UpperToLower THEN UpperToLower[name[i]] ELSE name[i]]

\* a FormatterFromName that looks the name up as given
FormatterFromName_caseSensitive(name) ==
    IF name \in DOMAIN formatMap THEN formatMap[name] ELSE JSONFormatter

FormatterFromName(name) ==
    LET lower == ToLower(name)
    IN  IF lower \in DOMAIN formatMap THEN formatMap[lower] ELSE JSONFormatter

\* the upper-case form of the letters of the three formatter names
UpperOf ==
    [s |-> "S", i |-> "I", m |-> "M", p |-> "P", l |-> "L", e |-> "E",
     t |-> "T", x |-> "X", j |-> "J", o |-> "O", n |-> "N"]

\* every spelling of word w in upper and lower case
Spellings(w) ==
    {[i \in DOMAIN w |-> IF i \in up THEN UpperOf[w[i]] ELSE w[i]] :
        up \in SUBSET DOMAIN w}

OtherNames ==
    {<<>>,
     <<"b", "o", "g", "u", "s">>,
     <<"B", "O", "G", "U", "S">>,
     <<"t", "x", "t">>,
     <<"t", "e", "x", "t", "s">>,
     <<"T", "E", "X", "T", " ">>,
     <<" ", "j", "s", "o", "n">>,
     <<"s", "i", "m", "p", "l">>,
     <<"y", "a", "m", "l">>,
     <<"j", "s", "o", "n", "l">>,
     <<"t", "3", "x", "t">>,
     <<"s", "i", "m", "p", "l", "e", "x">>}

Names ==
    Spellings(simpleName) \cup Spellings(textName) \cup Spellings(jsonName)
    \cup OtherNames

InitFormatterFromName ==
    /\ logger = NewLogger
    /\ ctxFields = <<>>
    /\ status = "running"
    /\ call \in {[op |-> "FormatterFromName", name |-> n] : n \in Names}
    /\ ret = NoRet

FormatterFromNameCall ==
    /\ call.op = "FormatterFromName"
    /\ ret = NoRet
    /\ ret' = [op |-> "FormatterFromName", f |-> FormatterFromName(call.name)]
    /\ UNCHANGED <<logger, ctxFields, status, call>>

SpecFormatterFromName ==
    InitFormatterFromName /\ [][FormatterFromNameCall]_vars

\* name spells word w, whatever the case of each letter
SpellsIgnoringCase(name, w) ==
    /\ Len(name) = Len(w)
    /\ \A i \in DOMAIN w : name[i] = w[i] \/ name[i] = UpperOf[w[i]]

\* C8: FormatterFromName is total and case-insensitive: simple, text and json
\* in any case give SimpleFormatter, TextFormatter and JSONFormatter, and
\* every other name, the empty one included, gives JSONFormatter.
C8_FormatterFromName ==
    ret.op = "FormatterFromName" =>
        ret.f = (IF SpellsIgnoringCase(call.name, simpleName) THEN SimpleFormatter
                 ELSE IF SpellsIgnoringCase(call.name, textName) THEN TextFormatter
                 ELSE JSONFormatter)

C8_Witness ==
    /\ ret.op = "FormatterFromName"
    /\ call.name = <<"T", "E", "X", "T">>
    /\ ret.f = TextFormatter

----------------------------------------------------------------------------
(* Field *)

\* err.Error() of the error values of the model: the payload is the message
ErrorText(value) == value.v

\* a Field that stores the value as given
Field_keepsError(key, value) == [key |-> key, value |-> value]

Field(key, value) ==
    IF value.t \in ErrorTypes
    THEN [key |-> key, value |-> Str(ErrorText(value))]
    ELSE [key |-> key, value |-> value]

FieldKeyNames == {"field1", "requestId", "1", ""}

InitField ==
    /\ logger = NewLogger
    /\ ctxFields = <<>>
    /\ status = "running"
    /\ call \in {[op |-> "Field", key |-> k, value |-> v] :
                    k \in FieldKeyNames, v \in ArgVals}
    /\ ret = NoRet

FieldCall ==
    /\ call.op = "Field"
    /\ ret = NoRet
    /\ ret' = [op |-> "Field", fld |-> Field(call.key, call.value)]
    /\ UNCHANGED <<logger, ctxFields, status, call>>

SpecField == InitField /\ [][FieldCall]_vars

\* the error values of the model and their messages
ErrorMessages ==
    (errBoom :> "boom") @@ (V("*stringerError", "both") :> "both")

\* C7: Field(key, value) stores key, and stores the error's message as a
\* string when value is an error (the error object is not retained) and
\* value itself otherwise.
C7_FieldStoresErrorText ==
    ret.op = "Field" =>
        /\ ret.fld.key = call.key
        /\ call.value \in DOMAIN ErrorMessages =>
              ret.fld.value = Str(ErrorMessages[call.value])
        /\ call.value \notin DOMAIN ErrorMessages =>
              ret.fld.value = call.value

C7_Witness ==
    /\ ret.op = "Field"
    /\ call.value = errBoom
    /\ ret.fld = [key |-> "field1", value |-> Str("boom")]

----------------------------------------------------------------------------
(* Init, the context field extractor and the field merge *)

\* a Formatter value that is none of the three declared constants
UndeclaredFormatter == JSONFormatter + 1

InitFormatters == {SimpleFormatter, TextFormatter, JSONFormatter, UndeclaredFormatter}

InitLevels == {ErrorLevel, InfoLevel, DebugLevel}

\* keys a caller registers and stores context values under
CtxKeys == {Str("requestId"), Str("1"), V("int", 1)}

KeyLists == SeqsUpTo(CtxKeys, MaxKeys)

\* the string value the contexts of the model hold under each key
CtxString ==
    (Str("requestId") :> "request-id")
    @@ (Str("1") :> "user-id")
    @@ (V("int", 1) :> "tenant-id")

\* a context: for every key nil (no value), a string or an int
Contexts ==
    {c \in [CtxKeys -> {Nil, V("int", 42)} \cup {Str(CtxString[k]) : k \in CtxKeys}] :
        \A k \in CtxKeys : c[k].t = "string" => c[k].v = CtxString[k]}

\* ctx.Value(f)
CtxValue(ctx, f) == IF f \in DOMAIN ctx THEN ctx[f] ELSE Nil

\* fmt.Sprintf("%v", f) for the keys of the model
Sprint(f) == IF f.t = "string" THEN f.v ELSE Itoa(f.v)

\* the switch of Init: no case for an undeclared Formatter value
SetFormatter(current, formatter) ==
    CASE formatter = JSONFormatter -> "logrus.JSONFormatter"
      [] formatter = TextFormatter -> "logrus.TextFormatter"
      [] formatter = SimpleFormatter -> "simpleFormatter"
      [] OTHER -> current

\* the loop of withContext: [panicked, Data]; val.(string) panics on a value
\* that is no string
RECURSIVE withContextLoop(_, _, _)
withContextLoop(ctx, keys, fields) ==
    IF keys = <<>> THEN [panicked |-> FALSE, Data |-> fields]
    ELSE LET f == Head(keys)
             val == CtxValue(ctx, f)
         IN  IF val # Nil
             THEN IF val.t # "string"
                  THEN [panicked |-> TRUE, Data |-> fields]
                  ELSE withContextLoop(ctx, Tail(keys),
                                       (Sprint(f) :> Str(val.v)) @@ fields)
             ELSE withContextLoop(ctx, Tail(keys), fields)

withContext(ctx) == withContextLoop(ctx, ctxFields, <<>>)

\* logrus Entry.WithFields: the entry's data overwritten by fields
EntryWithFields(data, fields) == fields @@ data

\* fld.apply
apply(f, fields) == (f.key :> f.value) @@ fields

RECURSIVE applyAll(_, _)
applyAll(flds, fields) ==
    IF flds = <<>> THEN fields
    ELSE applyAll(Tail(flds), apply(Head(flds), fields))

\* a withFields in which the first field given for a key wins
withFields_firstWins(data, flds) ==
    LET first(k) == CHOOSE i \in DOMAIN flds :
                        flds[i].key = k /\ \A j \in 1..(i - 1) : flds[j].key # k
    IN  EntryWithFields(data,
            [k \in {flds[i].key : i \in DOMAIN flds} |-> flds[first(k)].value])

withFields(data, flds) == EntryWithFields(data, applyAll(flds, <<>>))

\* logrus Logger.IsLevelEnabled
IsLevelEnabled(level) == logger.Level >= level

\* the explicit fields of the model, built by Field
Flds ==
    {Field("requestId", Str("value1")),
     Field("requestId", errBoom),
     Field("field1", Str("value1"))}

FldLists == SeqsUpTo(Flds, MaxFlds)

FmtArgs == SeqsUpTo({testInt, testMap, chanVal}, MaxFmtArgs)

\* the process runs and no call of the package is in progress
Idle == status = "running" /\ call = NoCall

Init ==
    /\ logger = NewLogger
    /\ ctxFields = <<>>
    /\ status = "running"
    /\ call = NoCall
    /\ ret = NoRet

InitCall ==
    /\ Idle
    /\ \E formatter \in InitFormatters, level \in InitLevels, contextFields \in KeyLists :
        /\ logger' = [Formatter |-> SetFormatter(logger.Formatter, formatter),
                      Level |-> level]
        /\ ctxFields' = contextFields
        /\ call' = [op |-> "Init", formatter |-> formatter, level |-> level,
                    contextFields |-> contextFields]
        /\ ret' = [op |-> "Init"]
        /\ UNCHANGED status

\* Level(ctx, msg, flds...): withFields(withContext(ctx), flds).Level(msg)
Log(op, level, ctx, flds) ==
    LET e == withContext(ctx)
    IN  /\ call' = [op |-> op, level |-> level, ctx |-> ctx, flds |-> flds]
        /\ IF e.panicked
           THEN /\ status' = "panicked"
                /\ ret' = [op |-> op, panicked |-> TRUE, ctxData |-> e.Data,
                           Data |-> <<>>, args |-> <<>>, written |-> 0]
           ELSE /\ status' = "running"
                /\ ret' = [op |-> op, panicked |-> FALSE, ctxData |-> e.Data,
                           Data |-> withFields(e.Data, flds), args |-> <<>>,
                           written |-> IF IsLevelEnabled(level) THEN 1 ELSE 0]
        /\ UNCHANGED <<logger, ctxFields>>

\* Levelf(ctx, format, a...): withContext(ctx).Levelf(format, passed...)
Logf(op, level, ctx, a, passed) ==
    LET e == withContext(ctx)
    IN  /\ call' = [op |-> op, level |-> level, ctx |-> ctx, a |-> a]
        /\ IF e.panicked
           THEN /\ status' = "panicked"
                /\ ret' = [op |-> op, panicked |-> TRUE, ctxData |-> e.Data,
                           Data |-> <<>>, args |-> <<>>, written |-> 0]
           ELSE /\ status' = IF level = FatalLevel THEN "exited" ELSE "running"
                /\ ret' = [op |-> op, panicked |-> FALSE, ctxData |-> e.Data,
                           Data |-> e.Data, args |-> passed,
                           written |-> IF IsLevelEnabled(level) THEN 1 ELSE 0]
        /\ UNCHANGED <<logger, ctxFields>>

Info ==
    /\ Idle
    /\ \E ctx \in Contexts, flds \in FldLists : Log("Info", InfoLevel, ctx, flds)

Infof ==
    /\ Idle
    /\ \E ctx \in Contexts, a \in FmtArgs :
          Logf("Infof", InfoLevel, ctx, a, normalizeArgs(a))

Warn ==
    /\ Idle
    /\ \E ctx \in Contexts, flds \in FldLists : Log("Warn", WarnLevel, ctx, flds)

Warnf ==
    /\ Idle
    /\ \E ctx \in Contexts, a \in FmtArgs :
          Logf("Warnf", WarnLevel, ctx, a, normalizeArgs(a))

Error ==
    /\ Idle
    /\ \E ctx \in Contexts, flds \in FldLists : Log("Error", ErrorLevel, ctx, flds)

Errorf ==
    /\ Idle
    /\ \E ctx \in Contexts, a \in FmtArgs :
          Logf("Errorf", ErrorLevel, ctx, a, normalizeArgs(a))

Debug ==
    /\ Idle
    /\ \E ctx \in Contexts, flds \in FldLists : Log("Debug", DebugLevel, ctx, flds)

Debugf ==
    /\ Idle
    /\ \E ctx \in Contexts, a \in FmtArgs :
          Logf("Debugf", DebugLevel, ctx, a, normalizeArgs(a))

\* Fatal(ctx, err): withContext(ctx).Fatal(err), then the process exits
Fatal ==
    /\ Idle
    /\ \E ctx \in Contexts :
        LET e == withContext(ctx)
        IN  /\ call' = [op |-> "Fatal", level |-> FatalLevel, ctx |-> ctx, err |-> errBoom]
            /\ status' = IF e.panicked THEN "panicked" ELSE "exited"
            /\ ret' = [op |-> "Fatal", panicked |-> e.panicked, ctxData |-> e.Data,
                       Data |-> IF e.panicked THEN <<>> ELSE e.Data, args |-> <<>>,
                       written |-> IF ~e.panicked /\ IsLevelEnabled(FatalLevel)
                                   THEN 1 ELSE 0]
            /\ UNCHANGED <<logger, ctxFields>>

\* Fatalf hands args to the backend as given
Fatalf ==
    /\ Idle
    /\ \E ctx \in Contexts, a \in FmtArgs : Logf("Fatalf", FatalLevel, ctx, a, a)

\* the entry point returns to its caller
Return ==
    /\ status = "running"
    /\ call # NoCall
    /\ call' = NoCall
    /\ ret' = NoRet
    /\ UNCHANGED <<logger, ctxFields, status>>

Next ==
    \/ InitCall
    \/ Info \/ Infof
    \/ Warn \/ Warnf
    \/ Error \/ Errorf
    \/ Debug \/ Debugf
    \/ Fatal \/ Fatalf
    \/ Return

Spec == Init /\ [][Next]_vars

----------------------------------------------------------------------------
(* Claims about Init and the logging entry points *)

PlainOps == {"Debug", "Info", "Warn", "Error"}
FormattedOps == {"Debugf", "Infof", "Warnf", "Errorf", "Fatalf"}
LogOps == PlainOps \cup FormattedOps \cup {"Fatal"}

\* the registered keys that have a value in ctx
RegisteredPresent(ctx) ==
    {ctxFields[i] : i \in {j \in DOMAIN ctxFields : ctx[ctxFields[j]] # Nil}}

\* C2: the mapping withContext builds has exactly one entry per registered
\* key that has a value in ctx, under the key's string representation and
\* with the value found in ctx; unregistered and absent keys give no entry.
\* (Stated of the calls in which withContext returns a mapping.)
C2_OneEntryPerRegisteredKey ==
    (ret.op \in LogOps /\ ~ret.panicked) =>
        LET present == RegisteredPresent(call.ctx)
        IN  /\ Cardinality(DOMAIN ret.ctxData) = Cardinality(present)
            /\ \A k \in present :
                  /\ Sprint(k) \in DOMAIN ret.ctxData
                  /\ ret.ctxData[Sprint(k)] = call.ctx[k]
            /\ \A s \in DOMAIN ret.ctxData : \E k \in present : Sprint(k) = s

\* C3: context extraction never panics, also when the context holds a value
\* that is not a string under a registered key.
C3_ExtractionNeverPanics ==
    ret.op \in LogOps => ~ret.panicked /\ status # "panicked"

\* index of the last explicit field with key k
LastWithKey(flds, k) ==
    CHOOSE i \in DOMAIN flds :
        flds[i].key = k /\ \A j \in (i + 1)..Len(flds) : flds[j].key # k

\* C4: the entry of Debug/Info/Warn/Error carries the context-derived fields
\* overwritten by the explicit fields in argument order: an explicit field
\* beats the context value of its key, the last of several explicit fields
\* with one key wins, every other context-derived key keeps its value.
C4_ExplicitFieldsOverwrite ==
    (ret.op \in PlainOps /\ ~ret.panicked) =>
        LET explicit == {call.flds[i].key : i \in DOMAIN call.flds}
        IN  /\ DOMAIN ret.Data = DOMAIN ret.ctxData \cup explicit
            /\ \A k \in DOMAIN ret.Data :
                  ret.Data[k] = IF k \in explicit
                                THEN call.flds[LastWithKey(call.flds, k)].value
                                ELSE ret.ctxData[k]

C4_Witness ==
    /\ ret.op = "Info"
    /\ ret.written = 1
    /\ call.flds = <<Field("requestId", Str("value1")), Field("requestId", errBoom)>>
    /\ ret.ctxData = ("requestId" :> Str("request-id")) @@ ("1" :> Str("user-id"))
    /\ ret.Data = ("requestId" :> Str("boom")) @@ ("1" :> Str("user-id"))

\* the formatter each Formatter value selects; a value that is none of the
\* declared ones falls back to JSON, as an unknown name does
SelectedFormatter(formatter) ==
    CASE formatter = SimpleFormatter -> "simpleFormatter"
      [] formatter = TextFormatter -> "logrus.TextFormatter"
      [] OTHER -> "logrus.JSONFormatter"

\* C5: after Init the formatter, the level and the registered keys are those
\* of that Init call, for every Formatter value, Level and key list; nothing
\* of the previous configuration remains.
C5_InitReplacesConfiguration ==
    ret.op = "Init" =>
        /\ logger.Formatter = SelectedFormatter(call.formatter)
        /\ logger.Level = call.level
        /\ ctxFields = call.contextFields

\* C6: a logging call below the level set by the most recent Init writes no
\* entry, a call at or above it writes exactly one.  (A smaller Level number
\* is a higher severity.)
C6_LevelFiltering ==
    ret.op \in LogOps =>
        ret.written = (IF call.level <= logger.Level THEN 1 ELSE 0)

\* the types the normalizer lets through unchanged
PassThroughTypes ==
    {"string", "bool"} \cup IntegerTypes \cup FloatTypes
    \cup StringerTypes \cup ErrorTypes

\* C9: every formatted entry point, Fatalf included, hands the backend its
\* arguments normalized: no map, struct, slice or pointer reaches it
\* un-encoded.
C9_FormattedArgsNormalized ==
    (ret.op \in FormattedOps /\ ~ret.panicked) =>
        /\ Len(ret.args) = Len(call.a)
        /\ \A i \in DOMAIN ret.args : ret.args[i].t \in PassThroughTypes

====
